---- MODULE Spec2Model ----
(***************************************************************************)
(* Model of the mean-reversion backtest engine (src/src/backtesting/       *)
(* engine.py) together with the helpers it calls: get_price_on_date        *)
(* (src/src/data/market_data.py) and calculate_worst_5day_performance      *)
(* (src/src/filters/performance_filter.py).                                *)
(*                                                                         *)
(* Conventions                                                             *)
(*  - A datetime is an integer number of ticks, TicksPerDay ticks a day;   *)
(*    a "%Y-%m-%d" string is the day number.  The index of a price frame   *)
(*    holds midnights, so an observation of day d has timestamp            *)
(*    d * TicksPerDay.  Time zones are not modelled: tz_localize keeps     *)
(*    the wall-clock time.                                                 *)
(*  - A price is an integer number of price units, CentUnits units a       *)
(*    cent; Python floats are modelled by exact rationals [n, d].          *)
(*  - Python's None is the empty tuple and a present value v is <<v>>.     *)
(*  - A dict is a sequence of [key, val] records in insertion order.       *)
(*  - Trade objects live in the object store `trades`; the open map and    *)
(*    the closed ledger hold references (indices) to them, as the Python   *)
(*    containers hold references to the dataclass instances.               *)
(***************************************************************************)
EXTENDS Integers, Sequences, FiniteSets, TLC

VARIABLES
    indices,                    \* self.indices
    min_age_years,              \* self.min_age_years
    countries,                  \* self.countries
    lookback_years,             \* self.lookback_years
    investment_per_trade,       \* self.investment_per_trade
    screening_frequency_days,   \* self.screening_frequency_days
    open_positions,             \* self.open_positions: ticker -> Trade
    closed_trades,              \* self.closed_trades: list of Trade
    all_historical_data,        \* self.all_historical_data: ticker -> frame
    trades,                     \* the Trade objects created so far
    pc,                         \* where the caller / run() stands
    candidate_tickers,          \* run: candidate_tickers
    end_date,                   \* _simulate_screenings: end_date
    current_date,               \* _simulate_screenings: current_date
    result,                     \* what the last run() / _generate_results returned
    runs,                       \* number of run() calls made on this engine
    trades_at_run_start         \* history: Len(trades) when the last run() began

vars == <<indices, min_age_years, countries, lookback_years, investment_per_trade,
          screening_frequency_days, open_positions, closed_trades,
          all_historical_data, trades, pc, candidate_tickers, end_date,
          current_date, result, runs, trades_at_run_start>>

config_vars == <<indices, min_age_years, countries, lookback_years,
                 investment_per_trade, screening_frequency_days>>

-----------------------------------------------------------------------------
(* Bounds of the model and units *)

TicksPerDay == 2
CentUnits == 3
MaxTrades == 2
MaxLookbackYears == 1
MaxRuns == 2

\* program constants
PctChangePeriods == 5
RecentDays == 10
DaysPerYear == 365
BufferDays == 30

-----------------------------------------------------------------------------
(* Python values *)

None == <<>>
Some(v) == <<v>>

Max(S) == CHOOSE x \in S : \A y \in S : y <= x
Min(S) == CHOOSE x \in S : \A y \in S : x <= y

Abs(x) == IF x < 0 THEN -x ELSE x

RECURSIVE Gcd(_, _)
Gcd(a, b) == IF b = 0 THEN a ELSE Gcd(b, a % b)

\* a float, as the exact rational n/d in lowest terms with d > 0
Rat(n, d) ==
    LET g == Gcd(Abs(n), d)
    IN  [n |-> n \div g, d |-> d \div g]

RatInt(k) == [n |-> k, d |-> 1]
RatMul(a, b) == Rat(a.n * b.n, a.d * b.d)
RatAdd(a, b) == Rat(a.n * b.d + b.n * a.d, a.d * b.d)
RatLess(a, b) == a.n * b.d < b.n * a.d
RatZero == RatInt(0)

\* round-half-to-even of n/d (d > 0) to an integer: Python's round()
RoundHalfEven(n, d) ==
    LET q == n \div d
        r == n % d
    IN  IF 2 * r < d THEN q
        ELSE IF 2 * r > d THEN q + 1
        ELSE IF q % 2 = 0 THEN q ELSE q + 1

\* dict helpers
Keys(dict) == {dict[i].key : i \in DOMAIN dict}
HasKey(dict, k) == \E i \in DOMAIN dict : dict[i].key = k
DictGet(dict, k) == dict[CHOOSE i \in DOMAIN dict : dict[i].key = k].val
DictSet(dict, k, v) ==
    IF HasKey(dict, k)
    THEN [i \in DOMAIN dict |-> IF dict[i].key = k THEN [key |-> k, val |-> v] ELSE dict[i]]
    ELSE Append(dict, [key |-> k, val |-> v])
DictDel(dict, k) ==
    LET keep(e) == e.key # k
    IN  SelectSeq(dict, keep)

\* datetime helpers
strftime(dt) == dt \div TicksPerDay
strptime(day) == day * TicksPerDay
timedelta(days) == days * TicksPerDay
timedelta_days(delta) == delta \div TicksPerDay

-----------------------------------------------------------------------------
(* market_data.get_price_on_date *)

\* the timestamp of an observation: midnight of its day
Timestamp(obs) == obs.date * TicksPerDay

\* Variant of get_price_on_date that falls back to the first prior observation
get_price_on_date_first_prior(hist, date) ==
    IF \E i \in DOMAIN hist : Timestamp(hist[i]) = date
    THEN Some(hist[CHOOSE i \in DOMAIN hist : Timestamp(hist[i]) = date].close)
    ELSE LET prior_dates == {i \in DOMAIN hist : Timestamp(hist[i]) <= date}
         IN  IF prior_dates # {}
             THEN Some(hist[Min(prior_dates)].close)
             ELSE None

\* hist.loc[date, "Close"] when the date is in the index, else the close of the
\* last observation on or before it, else None
get_price_on_date(hist, date) ==
    IF \E i \in DOMAIN hist : Timestamp(hist[i]) = date
    THEN Some(hist[CHOOSE i \in DOMAIN hist : Timestamp(hist[i]) = date].close)
    ELSE LET prior_dates == {i \in DOMAIN hist : Timestamp(hist[i]) <= date}
         IN  IF prior_dates # {}
             THEN Some(hist[Max(prior_dates)].close)
             ELSE None

-----------------------------------------------------------------------------
(* The Trade dataclass and the position lifecycle of BacktestEngine.  The     *)
(* methods are operators on the record S of the engine's mutable containers. *)

Trade(ticker, company_name, entry_date, entry_price, shares, target_price) ==
    [ticker |-> ticker, company_name |-> company_name, entry_date |-> entry_date,
     entry_price |-> entry_price, shares |-> shares, target_price |-> target_price,
     exit_date |-> None, exit_price |-> None, holding_days |-> None, pnl |-> None]

\* the containers as a method finds them; `raised` tells that the method ended
\* with an exception
Engine ==
    [open_positions |-> open_positions, closed_trades |-> closed_trades,
     trades |-> trades, raised |-> FALSE]

\* Variants of _open_position that differ from the source in one place; the
\* properties below are also checked against them.
\* - without the "already open" early return
_open_position_without_open_check(S, stock_info, entry_date) ==
    LET ticker == stock_info.ticker
    IN  IF stock_info.target_price <= stock_info.entry_price
        THEN S
        ELSE LET shares == Rat(investment_per_trade, stock_info.entry_price)
                 trade == Trade(ticker, stock_info.company_name, strftime(entry_date),
                                stock_info.entry_price, shares, stock_info.target_price)
             IN  [S EXCEPT !.trades = Append(@, trade),
                           !.open_positions = DictSet(@, ticker, Len(S.trades) + 1)]

\* - without the target guard
_open_position_without_target_guard(S, stock_info, entry_date) ==
    LET ticker == stock_info.ticker
    IN  IF HasKey(S.open_positions, ticker)
        THEN S
        ELSE LET shares == Rat(investment_per_trade, stock_info.entry_price)
                 trade == Trade(ticker, stock_info.company_name, strftime(entry_date),
                                stock_info.entry_price, shares, stock_info.target_price)
             IN  [S EXCEPT !.trades = Append(@, trade),
                           !.open_positions = DictSet(@, ticker, Len(S.trades) + 1)]

\* - taking over the target of the new candidate when the ticker is already open
_open_position_updates_target(S, stock_info, entry_date) ==
    LET ticker == stock_info.ticker
    IN  IF HasKey(S.open_positions, ticker)
        THEN [S EXCEPT !.trades[DictGet(S.open_positions, ticker)].target_price =
                           stock_info.target_price]
        ELSE IF stock_info.target_price <= stock_info.entry_price
        THEN S
        ELSE LET shares == Rat(investment_per_trade, stock_info.entry_price)
                 trade == Trade(ticker, stock_info.company_name, strftime(entry_date),
                                stock_info.entry_price, shares, stock_info.target_price)
             IN  [S EXCEPT !.trades = Append(@, trade),
                           !.open_positions = DictSet(@, ticker, Len(S.trades) + 1)]

\* - with the target guard written "<" instead of "<="
_open_position_strict_guard(S, stock_info, entry_date) ==
    LET ticker == stock_info.ticker
    IN  IF HasKey(S.open_positions, ticker)
        THEN S
        ELSE IF stock_info.target_price < stock_info.entry_price
        THEN S
        ELSE LET shares == Rat(investment_per_trade, stock_info.entry_price)
                 trade == Trade(ticker, stock_info.company_name, strftime(entry_date),
                                stock_info.entry_price, shares, stock_info.target_price)
             IN  [S EXCEPT !.trades = Append(@, trade),
                           !.open_positions = DictSet(@, ticker, Len(S.trades) + 1)]

_open_position(S, stock_info, entry_date) ==
    LET ticker == stock_info.ticker
    IN  IF HasKey(S.open_positions, ticker)
        THEN S
        ELSE IF stock_info.target_price <= stock_info.entry_price
        THEN S
        ELSE LET shares == Rat(investment_per_trade, stock_info.entry_price)
                 trade == Trade(ticker, stock_info.company_name, strftime(entry_date),
                                stock_info.entry_price, shares, stock_info.target_price)
             IN  [S EXCEPT !.trades = Append(@, trade),
                           !.open_positions = DictSet(@, ticker, Len(S.trades) + 1)]

\* Variants of _close_position that differ from the source in one place.
\* - inserting at the front of the ledger
_close_position_prepends(S, ticker, exit_price, exit_date) ==
    IF ~HasKey(S.open_positions, ticker)
    THEN S
    ELSE LET id == DictGet(S.open_positions, ticker)
             trade == S.trades[id]
             entry_dt == strptime(trade.entry_date)
             holding_days == timedelta_days(exit_date - entry_dt)
             pnl == RatMul(trade.shares, RatInt(exit_price - trade.entry_price))
             updated == [S EXCEPT !.trades[id] =
                                      [@ EXCEPT !.exit_date = Some(strftime(exit_date)),
                                                !.exit_price = Some(exit_price),
                                                !.holding_days = Some(holding_days),
                                                !.pnl = Some(pnl)]]
         IN  IF investment_per_trade = 0
             THEN [updated EXCEPT !.raised = TRUE]
             ELSE [updated EXCEPT !.closed_trades = <<id>> \o @,
                                  !.open_positions = DictDel(@, ticker)]

\* - without the deletion from the open map
_close_position_keeps_open(S, ticker, exit_price, exit_date) ==
    IF ~HasKey(S.open_positions, ticker)
    THEN S
    ELSE LET id == DictGet(S.open_positions, ticker)
             trade == S.trades[id]
             entry_dt == strptime(trade.entry_date)
             holding_days == timedelta_days(exit_date - entry_dt)
             pnl == RatMul(trade.shares, RatInt(exit_price - trade.entry_price))
             updated == [S EXCEPT !.trades[id] =
                                      [@ EXCEPT !.exit_date = Some(strftime(exit_date)),
                                                !.exit_price = Some(exit_price),
                                                !.holding_days = Some(holding_days),
                                                !.pnl = Some(pnl)]]
         IN  IF investment_per_trade = 0
             THEN [updated EXCEPT !.raised = TRUE]
             ELSE [updated EXCEPT !.closed_trades = Append(@, id)]

\* - with the P&L computed as shares * (entry_price - exit_price)
_close_position_pnl_flipped(S, ticker, exit_price, exit_date) ==
    IF ~HasKey(S.open_positions, ticker)
    THEN S
    ELSE LET id == DictGet(S.open_positions, ticker)
             trade == S.trades[id]
             entry_dt == strptime(trade.entry_date)
             holding_days == timedelta_days(exit_date - entry_dt)
             pnl == RatMul(trade.shares, RatInt(trade.entry_price - exit_price))
             updated == [S EXCEPT !.trades[id] =
                                      [@ EXCEPT !.exit_date = Some(strftime(exit_date)),
                                                !.exit_price = Some(exit_price),
                                                !.holding_days = Some(holding_days),
                                                !.pnl = Some(pnl)]]
         IN  IF investment_per_trade = 0
             THEN [updated EXCEPT !.raised = TRUE]
             ELSE [updated EXCEPT !.closed_trades = Append(@, id),
                                  !.open_positions = DictDel(@, ticker)]

\* - counting the entry day into the holding period
_close_position_inclusive_days(S, ticker, exit_price, exit_date) ==
    IF ~HasKey(S.open_positions, ticker)
    THEN S
    ELSE LET id == DictGet(S.open_positions, ticker)
             trade == S.trades[id]
             entry_dt == strptime(trade.entry_date)
             holding_days == timedelta_days(exit_date - entry_dt) + 1
             pnl == RatMul(trade.shares, RatInt(exit_price - trade.entry_price))
             updated == [S EXCEPT !.trades[id] =
                                      [@ EXCEPT !.exit_date = Some(strftime(exit_date)),
                                                !.exit_price = Some(exit_price),
                                                !.holding_days = Some(holding_days),
                                                !.pnl = Some(pnl)]]
         IN  IF investment_per_trade = 0
             THEN [updated EXCEPT !.raised = TRUE]
             ELSE [updated EXCEPT !.closed_trades = Append(@, id),
                                  !.open_positions = DictDel(@, ticker)]

\* The four exit fields are assigned first; the log line that follows divides
\* the P&L by investment_per_trade and raises ZeroDivisionError when that is 0,
\* before the trade is moved to the ledger.
_close_position(S, ticker, exit_price, exit_date) ==
    IF ~HasKey(S.open_positions, ticker)
    THEN S
    ELSE LET id == DictGet(S.open_positions, ticker)
             trade == S.trades[id]
             entry_dt == strptime(trade.entry_date)
             holding_days == timedelta_days(exit_date - entry_dt)
             pnl == RatMul(trade.shares, RatInt(exit_price - trade.entry_price))
             updated == [S EXCEPT !.trades[id] =
                                      [@ EXCEPT !.exit_date = Some(strftime(exit_date)),
                                                !.exit_price = Some(exit_price),
                                                !.holding_days = Some(holding_days),
                                                !.pnl = Some(pnl)]]
         IN  IF investment_per_trade = 0
             THEN [updated EXCEPT !.raised = TRUE]
             ELSE [updated EXCEPT !.closed_trades = Append(@, id),
                                  !.open_positions = DictDel(@, ticker)]

\* Variant of the first loop that takes every priced position, at target or not
positions_to_close_any_price(S, current_dt) ==
    LET price(e) == get_price_on_date(DictGet(all_historical_data, e.key), current_dt)
        reached(e) ==
            /\ HasKey(all_historical_data, e.key)
            /\ price(e) # None
        hits == SelectSeq(S.open_positions, reached)
    IN  [i \in DOMAIN hits |-> [ticker |-> hits[i].key, exit_price |-> price(hits[i])[1]]]

\* the first loop of _update_open_positions: the (ticker, current_price) pairs to close
positions_to_close(S, current_dt) ==
    LET price(e) == get_price_on_date(DictGet(all_historical_data, e.key), current_dt)
        reached(e) ==
            /\ HasKey(all_historical_data, e.key)
            /\ price(e) # None
            /\ price(e)[1] >= S.trades[e.val].target_price
        hits == SelectSeq(S.open_positions, reached)
    IN  [i \in DOMAIN hits |-> [ticker |-> hits[i].key, exit_price |-> price(hits[i])[1]]]

RECURSIVE close_each(_, _, _)
close_each(S, to_close, exit_date) ==
    IF to_close = <<>> \/ S.raised
    THEN S
    ELSE close_each(_close_position(S, Head(to_close).ticker, Head(to_close).exit_price,
                                    exit_date),
                    Tail(to_close), exit_date)

_update_open_positions(S, current_dt) ==
    close_each(S, positions_to_close(S, current_dt), current_dt)

RECURSIVE close_remaining_loop(_, _, _)
close_remaining_loop(S, tickers, now) ==
    IF tickers = <<>> \/ S.raised
    THEN S
    ELSE LET ticker == Head(tickers)
             current_price == get_price_on_date(DictGet(all_historical_data, ticker), now)
         IN  IF ~HasKey(all_historical_data, ticker)
             THEN close_remaining_loop(S, Tail(tickers), now)
             ELSE IF current_price # None
             THEN close_remaining_loop(_close_position(S, ticker, current_price[1], now),
                                       Tail(tickers), now)
             ELSE close_remaining_loop(S, Tail(tickers), now)

_close_remaining_positions(S, now) ==
    close_remaining_loop(S, [i \in DOMAIN S.open_positions |-> S.open_positions[i].key], now)

-----------------------------------------------------------------------------
(* The result aggregator *)

ranges ==
    << [min_days |-> 0,   max_days |-> Some(7),   label |-> "0-7 days"],
       [min_days |-> 7,   max_days |-> Some(14),  label |-> "7-14 days"],
       [min_days |-> 14,  max_days |-> Some(30),  label |-> "14-30 days"],
       [min_days |-> 30,  max_days |-> Some(60),  label |-> "30-60 days"],
       [min_days |-> 60,  max_days |-> Some(90),  label |-> "60-90 days"],
       [min_days |-> 90,  max_days |-> Some(180), label |-> "90-180 days"],
       [min_days |-> 180, max_days |-> Some(365), label |-> "180-365 days"],
       [min_days |-> 365, max_days |-> None,      label |-> "365+ days"] >>

\* min_days <= days < max_days, with max_days = None for float("inf")
InRange(days, r) ==
    /\ r.min_days <= days
    /\ (r.max_days = None \/ days < r.max_days[1])

\* the label of the first range holding `days`, None when no range does
first_range(days) ==
    LET hits == {k \in DOMAIN ranges : InRange(days, ranges[k])}
    IN  IF hits = {} THEN None ELSE Some(ranges[Min(hits)].label)

_create_holding_distribution(holding_days) ==
    IF holding_days = <<>>
    THEN <<>>
    ELSE LET labels == {first_range(holding_days[i])[1] :
                            i \in {j \in DOMAIN holding_days :
                                       first_range(holding_days[j]) # None}}
         IN  [label \in labels |->
                 Cardinality({i \in DOMAIN holding_days :
                                  first_range(holding_days[i]) = Some(label)})]

RECURSIVE SumInt(_)
SumInt(seq) == IF seq = <<>> THEN 0 ELSE Head(seq) + SumInt(Tail(seq))

RECURSIVE SumRat(_)
SumRat(seq) == IF seq = <<>> THEN RatZero ELSE RatAdd(Head(seq), SumRat(Tail(seq)))

\* Python truthiness of an optional number: not None and not zero
TruthyInt(x) == x # None /\ x[1] # 0
TruthyRat(x) == x # None /\ x[1].n # 0

\* Variant of _generate_results that counts a P&L of 0 as a win
_generate_results_zero_wins(S) ==
    LET open_ids == [i \in DOMAIN S.open_positions |-> S.open_positions[i].val]
        all_trades == S.closed_trades \o open_ids
        closed == [i \in DOMAIN S.closed_trades |-> S.trades[S.closed_trades[i]]]
        has_pnl(t) == t.pnl # None
        with_pnl == SelectSeq(closed, has_pnl)
        total_pnl == SumRat([i \in DOMAIN with_pnl |-> with_pnl[i].pnl[1]])
        total_invested == Len(all_trades) * investment_per_trade
        total_trades == Len(all_trades)
        winning_trades ==
            Cardinality({i \in DOMAIN closed :
                             closed[i].pnl # None /\ closed[i].pnl[1].n >= 0})
        losing_trades ==
            Cardinality({i \in DOMAIN closed :
                             TruthyRat(closed[i].pnl) /\ closed[i].pnl[1].n < 0})
        still_open == Len(S.open_positions)
        has_days(t) == TruthyInt(t.holding_days)
        with_days == SelectSeq(closed, has_days)
        closed_holding_days == [i \in DOMAIN with_days |-> with_days[i].holding_days[1]]
        avg_holding_days ==
            IF closed_holding_days # <<>>
            THEN Rat(SumInt(closed_holding_days), Len(closed_holding_days))
            ELSE RatZero
        distribution == _create_holding_distribution(closed_holding_days)
    IN  [trades |-> all_trades, total_pnl |-> total_pnl,
         total_invested |-> total_invested, total_trades |-> total_trades,
         winning_trades |-> winning_trades, losing_trades |-> losing_trades,
         still_open |-> still_open, avg_holding_days |-> avg_holding_days,
         holding_days_distribution |-> distribution]

_generate_results(S) ==
    LET open_ids == [i \in DOMAIN S.open_positions |-> S.open_positions[i].val]
        all_trades == S.closed_trades \o open_ids
        closed == [i \in DOMAIN S.closed_trades |-> S.trades[S.closed_trades[i]]]
        has_pnl(t) == t.pnl # None
        with_pnl == SelectSeq(closed, has_pnl)
        total_pnl == SumRat([i \in DOMAIN with_pnl |-> with_pnl[i].pnl[1]])
        total_invested == Len(all_trades) * investment_per_trade
        total_trades == Len(all_trades)
        winning_trades ==
            Cardinality({i \in DOMAIN closed :
                             TruthyRat(closed[i].pnl) /\ closed[i].pnl[1].n > 0})
        losing_trades ==
            Cardinality({i \in DOMAIN closed :
                             TruthyRat(closed[i].pnl) /\ closed[i].pnl[1].n < 0})
        still_open == Len(S.open_positions)
        has_days(t) == TruthyInt(t.holding_days)
        with_days == SelectSeq(closed, has_days)
        closed_holding_days == [i \in DOMAIN with_days |-> with_days[i].holding_days[1]]
        avg_holding_days ==
            IF closed_holding_days # <<>>
            THEN Rat(SumInt(closed_holding_days), Len(closed_holding_days))
            ELSE RatZero
        distribution == _create_holding_distribution(closed_holding_days)
    IN  [trades |-> all_trades, total_pnl |-> total_pnl,
         total_invested |-> total_invested, total_trades |-> total_trades,
         winning_trades |-> winning_trades, losing_trades |-> losing_trades,
         still_open |-> still_open, avg_holding_days |-> avg_holding_days,
         holding_days_distribution |-> distribution]

\* Variant of _create_empty_result that aggregates the engine's containers
_create_empty_result_from_state == _generate_results(Engine)

_create_empty_result ==
    [trades |-> <<>>, total_pnl |-> RatZero, total_invested |-> 0, total_trades |-> 0,
     winning_trades |-> 0, losing_trades |-> 0, still_open |-> 0,
     avg_holding_days |-> RatZero, holding_days_distribution |-> <<>>]

-----------------------------------------------------------------------------
(* performance_filter.calculate_worst_5day_performance *)

\* pct_change(periods=5) * 100 at row i (1-based), for i > PctChangePeriods
pct_change(hist, i) ==
    Rat((hist[i].close - hist[i - PctChangePeriods].close) * 100,
        hist[i - PctChangePeriods].close)

\* round(x, 2) of a price: to the nearest cent
round_price(p) == RoundHalfEven(p, CentUnits) * CentUnits

\* round(x, 2) of a percentage, as an integer number of hundredths of a percent
round_pct(r) == RoundHalfEven(r.n * 100, r.d)

\* Variant of idxmin that returns the last row holding the minimum
idxmin_last(hist, valid) ==
    CHOOSE i \in valid :
        \A j \in valid :
            \/ RatLess(pct_change(hist, i), pct_change(hist, j))
            \/ (pct_change(hist, i) = pct_change(hist, j) /\ i >= j)

\* idxmin over the rows of `valid`: the first row holding the minimum
idxmin(hist, valid) ==
    CHOOSE i \in valid :
        \A j \in valid :
            \/ RatLess(pct_change(hist, i), pct_change(hist, j))
            \/ (pct_change(hist, i) = pct_change(hist, j) /\ i <= j)

calculate_worst_5day_performance(hist) ==
    IF Len(hist) < 5
    THEN None
    ELSE LET hist_valid == {i \in DOMAIN hist : i > PctChangePeriods}
         IN  IF hist_valid = {}
             THEN None
             ELSE LET worst_idx == idxmin(hist, hist_valid)
                      worst_return == pct_change(hist, worst_idx)
                      idx_position == worst_idx - 1
                  IN  IF idx_position < 5
                      THEN None
                      ELSE LET start == hist[idx_position - 5 + 1]
                               end == hist[worst_idx]
                           IN  Some([return_pct |-> round_pct(worst_return),
                                     start_date |-> start.date,
                                     end_date |-> end.date,
                                     start_price |-> round_price(start.close),
                                     end_price |-> round_price(end.close)])

-----------------------------------------------------------------------------
(* BacktestEngine._screen_for_date *)

\* hist[hist.index <= screening_date]
up_to_date(hist, screening_date) ==
    LET before(obs) == Timestamp(obs) <= screening_date
    IN  SelectSeq(hist, before)

\* Variant of tail that keeps the whole frame
tail_keeps_all(hist, n) == hist

\* hist.tail(n)
tail(hist, n) ==
    IF Len(hist) <= n THEN hist ELSE SubSeq(hist, Len(hist) - n + 1, Len(hist))

\* Variant of the loop body that skips positive returns only
candidate_for_accepts_zero(ticker, hist, screening_date) ==
    LET hist_up_to_date == up_to_date(hist, screening_date)
    IN  IF Len(hist_up_to_date) < RecentDays
        THEN None
        ELSE LET hist_recent == tail(hist_up_to_date, RecentDays)
                 perf == calculate_worst_5day_performance(hist_recent)
                 current_price == get_price_on_date(hist, screening_date)
             IN  IF perf = None \/ perf[1].return_pct > 0
                 THEN None
                 ELSE IF current_price = None
                 THEN None
                 ELSE Some([ticker |-> ticker,
                            return_pct |-> perf[1].return_pct,
                            entry_price |-> current_price[1],
                            target_price |-> perf[1].start_price,
                            company_name |-> ticker])

\* Variant of the loop body without the test for ten observations
candidate_for_without_length_test(ticker, hist, screening_date) ==
    LET hist_up_to_date == up_to_date(hist, screening_date)
    IN  IF FALSE
        THEN None
        ELSE LET hist_recent == tail(hist_up_to_date, RecentDays)
                 perf == calculate_worst_5day_performance(hist_recent)
                 current_price == get_price_on_date(hist, screening_date)
             IN  IF perf = None \/ perf[1].return_pct >= 0
                 THEN None
                 ELSE IF current_price = None
                 THEN None
                 ELSE Some([ticker |-> ticker,
                            return_pct |-> perf[1].return_pct,
                            entry_price |-> current_price[1],
                            target_price |-> perf[1].start_price,
                            company_name |-> ticker])

\* the candidate the loop body appends for one ticker, None when it continues
candidate_for(ticker, hist, screening_date) ==
    LET hist_up_to_date == up_to_date(hist, screening_date)
    IN  IF Len(hist_up_to_date) < RecentDays
        THEN None
        ELSE LET hist_recent == tail(hist_up_to_date, RecentDays)
                 perf == calculate_worst_5day_performance(hist_recent)
                 current_price == get_price_on_date(hist, screening_date)
             IN  IF perf = None \/ perf[1].return_pct >= 0
                 THEN None
                 ELSE IF current_price = None
                 THEN None
                 ELSE Some([ticker |-> ticker,
                            return_pct |-> perf[1].return_pct,
                            entry_price |-> current_price[1],
                            target_price |-> perf[1].start_price,
                            company_name |-> ticker])

RECURSIVE collect_candidates(_, _)
collect_candidates(items, screening_date) ==
    IF items = <<>>
    THEN <<>>
    ELSE LET c == candidate_for(Head(items).key, Head(items).val, screening_date)
         IN  c \o collect_candidates(Tail(items), screening_date)

\* Variant of the sort that puts a candidate before the equal ones
RECURSIVE insert_sorted_before_equal(_, _)
insert_sorted_before_equal(sorted, c) ==
    IF sorted = <<>>
    THEN <<c>>
    ELSE IF c.return_pct <= Head(sorted).return_pct
    THEN <<c>> \o sorted
    ELSE <<Head(sorted)>> \o insert_sorted_before_equal(Tail(sorted), c)

\* list.sort(key=return_pct): stable, ascending
RECURSIVE insert_sorted(_, _)
insert_sorted(sorted, c) ==
    IF sorted = <<>>
    THEN <<c>>
    ELSE IF c.return_pct < Head(sorted).return_pct
    THEN <<c>> \o sorted
    ELSE <<Head(sorted)>> \o insert_sorted(Tail(sorted), c)

RECURSIVE sort_by_return(_)
sort_by_return(candidates) ==
    IF candidates = <<>>
    THEN <<>>
    ELSE insert_sorted(sort_by_return(SubSeq(candidates, 1, Len(candidates) - 1)),
                       candidates[Len(candidates)])

\* Variant of _screen_for_date that passes over the tickers with an open position
_screen_for_date_skips_open(screening_date) ==
    LET free(c) == ~HasKey(open_positions, c.ticker)
        candidates == SelectSeq(collect_candidates(all_historical_data, screening_date), free)
    IN  IF candidates = <<>>
        THEN None
        ELSE Some(sort_by_return(candidates)[1])

_screen_for_date(screening_date) ==
    LET candidates == collect_candidates(all_historical_data, screening_date)
    IN  IF candidates = <<>>
        THEN None
        ELSE Some(sort_by_return(candidates)[1])

-----------------------------------------------------------------------------
(* Inputs *)

Tickers == {"A", "B"}

\* price levels, in price units: 1 cent, 2 1/3 cents, 3 cents
Prices == {3, 7, 9}

\* 50 dollars (the default of investment_per_trade), in price units
DefaultInvestment == 50 * 100 * CentUnits

\* BacktestEngine.__init__: the containers start empty
InitState ==
    /\ open_positions = <<>>
    /\ closed_trades = <<>>
    /\ all_historical_data = <<>>
    /\ trades = <<>>
    /\ pc = "new"
    /\ candidate_tickers = <<>>
    /\ end_date = None
    /\ current_date = None
    /\ result = None
    /\ runs = 0
    /\ trades_at_run_start = 0

SetEngine(S) ==
    /\ open_positions' = S.open_positions
    /\ closed_trades' = S.closed_trades
    /\ trades' = S.trades

-----------------------------------------------------------------------------
(* Specification Spec: a caller that builds an engine, loads price data and  *)
(* then calls the position-lifecycle methods directly, in any order and with *)
(* any arguments, as a unit test does.  An exception of a call is caught by  *)
(* the caller, who carries on with the engine as the call left it.           *)

\* the datetimes a caller passes: midnight of day 0, and day 1 one tick past midnight
ApiTicks == {0, TicksPerDay + 1}

\* a frame with one observation, on day 1
ApiFrame == <<[date |-> 1, close |-> 7]>>

\* the mappings fetch_multiple_stocks returns for the tickers A, B
ApiData ==
    { <<[key |-> "A", val |-> ApiFrame]>>,
      <<[key |-> "A", val |-> ApiFrame], [key |-> "B", val |-> ApiFrame]>> }

ApiCandidates ==
    [ticker : Tickers, return_pct : {-1000}, entry_price : {3, 9},
     target_price : {7, 9}, company_name : {"name"}]

ApiExitPrices == {2, 3}

Init ==
    /\ InitState
    /\ indices = <<"SP500", "DAX">>
    /\ min_age_years = 50
    /\ countries = <<>>
    /\ lookback_years = 5
    /\ screening_frequency_days = 7
    /\ investment_per_trade \in {0, DefaultInvestment}

\* _fetch_all_historical_data
CallFetch ==
    /\ pc = "new"
    /\ \E data \in ApiData : all_historical_data' = data
    /\ pc' = "api"
    /\ UNCHANGED <<config_vars, open_positions, closed_trades, trades,
                   candidate_tickers, end_date, current_date, result, runs,
                   trades_at_run_start>>

ApiUnchanged ==
    UNCHANGED <<config_vars, all_historical_data, pc, candidate_tickers, end_date,
                current_date, result, runs, trades_at_run_start>>

CallOpenPosition ==
    /\ pc = "api"
    /\ Len(trades) < MaxTrades
    /\ \E stock_info \in ApiCandidates, entry_date \in ApiTicks :
           SetEngine(_open_position(Engine, stock_info, entry_date))
    /\ ApiUnchanged

CallUpdateOpenPositions ==
    /\ pc = "api"
    /\ \E current_dt \in ApiTicks : SetEngine(_update_open_positions(Engine, current_dt))
    /\ ApiUnchanged

CallClosePosition ==
    /\ pc = "api"
    /\ \E ticker \in Tickers, exit_price \in ApiExitPrices, exit_date \in ApiTicks :
           SetEngine(_close_position(Engine, ticker, exit_price, exit_date))
    /\ ApiUnchanged

\* step 4 of run(), called by itself
CallCloseRemainingPositions ==
    /\ pc = "api"
    /\ \E now \in ApiTicks : SetEngine(_close_remaining_positions(Engine, now))
    /\ pc' = "closed_remaining"
    /\ UNCHANGED <<config_vars, all_historical_data, candidate_tickers, end_date,
                   current_date, result, runs, trades_at_run_start>>

CallGenerateResults ==
    /\ pc = "closed_remaining"
    /\ result' = Some(_generate_results(Engine))
    /\ pc' = "reported"
    /\ UNCHANGED <<config_vars, open_positions, closed_trades, all_historical_data,
                   trades, candidate_tickers, end_date, current_date, runs,
                   trades_at_run_start>>

Next ==
    \/ CallFetch
    \/ CallOpenPosition
    \/ CallUpdateOpenPositions
    \/ CallClosePosition
    \/ CallCloseRemainingPositions
    \/ CallGenerateResults

Spec == Init /\ [][Next]_vars

-----------------------------------------------------------------------------
(* The collaborators of run(): the index pages, the metadata CSV file and    *)
(* the price provider.  What they answer is chosen when run() asks.          *)

Today == 800
CurrentYear == 2026

\* datetime.now(): today, one tick past midnight
Now == Today * TicksPerDay + 1

SupportedIndices == {"SP500", "DAX", "FTSE100"}

\* index_fetcher.fetch_index_tickers: the constituents a page lists
IndexConstituents(index_name) ==
    IF index_name = "SP500" THEN <<"A", "C">>
    ELSE IF index_name = "DAX" THEN <<"B">>
    ELSE <<>>

\* str.upper on the country names in use
Upper(str) ==
    IF str \in {"usa", "USA"} THEN "USA"
    ELSE IF str \in {"Germany", "GERMANY"} THEN "GERMANY"
    ELSE str

\* the states of the metadata CSV: absent, without a required column, or a table
MetadataFiles ==
    { [exists |-> FALSE, columns |-> FALSE, rows |-> <<>>],
      [exists |-> TRUE, columns |-> FALSE, rows |-> <<>>] }
    \cup
    { [exists |-> TRUE, columns |-> TRUE,
       rows |-> << [ticker |-> "A", founding_year |-> Some(ya), country |-> "USA",
                    index |-> "SP500"],
                   [ticker |-> "B", founding_year |-> Some(1900), country |-> cb,
                    index |-> "DAX"] >>] :
          ya \in {1900, 2000}, cb \in {"USA", "Germany"} }

\* an exception leaving a function, and a value returned by it
Raised == [raised |-> TRUE, value |-> <<>>]
Returned(v) == [raised |-> FALSE, value |-> v]

\* Variant of load_metadata that answers a missing file with an empty table
load_metadata_tolerates_missing_file(file) ==
    IF ~file.exists
    THEN Returned(<<>>)
    ELSE IF ~file.columns
    THEN Raised
    ELSE LET has_year(row) == row.founding_year # None
             valid(row) ==
                 /\ 1600 <= row.founding_year[1]
                 /\ row.founding_year[1] <= CurrentYear
                 /\ row.index \in SupportedIndices
         IN  Returned(SelectSeq(SelectSeq(file.rows, has_year), valid))

\* company_metadata.load_metadata: raises, or returns the validated rows
load_metadata(file) ==
    IF ~file.exists
    THEN Raised
    ELSE IF ~file.columns
    THEN Raised
    ELSE LET has_year(row) == row.founding_year # None
             valid(row) ==
                 /\ 1600 <= row.founding_year[1]
                 /\ row.founding_year[1] <= CurrentYear
                 /\ row.index \in SupportedIndices
         IN  Returned(SelectSeq(SelectSeq(file.rows, has_year), valid))

\* company_metadata.get_companies_by_tickers
get_companies_by_tickers(df, tickers) ==
    LET listed(row) == \E i \in DOMAIN tickers : tickers[i] = row.ticker
    IN  SelectSeq(df, listed)

\* age_filter.filter_by_age
filter_by_age(df, min_age) ==
    LET old_enough(row) == CurrentYear - row.founding_year[1] >= min_age
    IN  SelectSeq(df, old_enough)

\* country_filter.filter_by_country
filter_by_country(df, country_list) ==
    IF country_list = <<>>
    THEN df
    ELSE LET wanted(row) ==
                 \E i \in DOMAIN country_list : Upper(country_list[i]) = Upper(row.country)
         IN  SelectSeq(df, wanted)

\* the first loop of _get_candidate_tickers: index_ok[i] tells whether the fetch of
\* the i-th index succeeded; a failed fetch is logged and skipped
RECURSIVE fetch_indices(_, _)
fetch_indices(names, index_ok) ==
    IF names = <<>>
    THEN <<>>
    ELSE (IF index_ok[Head(names)] /\ Head(names) \in SupportedIndices
          THEN IndexConstituents(Head(names))
          ELSE <<>>)
         \o fetch_indices(Tail(names), index_ok)

\* BacktestEngine._get_candidate_tickers: raises, or returns the list of tickers
_get_candidate_tickers(index_ok, file) ==
    LET all_tickers == fetch_indices(indices, index_ok)
        metadata_df == load_metadata(file)
    IN  IF metadata_df.raised
        THEN Raised
        ELSE LET by_ticker == get_companies_by_tickers(metadata_df.value, all_tickers)
                 by_age == filter_by_age(by_ticker, min_age_years)
                 filtered_df ==
                     IF countries # <<>> THEN filter_by_country(by_age, countries) ELSE by_age
             IN  Returned([i \in DOMAIN filtered_df |-> filtered_df[i].ticker])

\* The price paths of the market: sixteen sessions, in four stretches of constant
\* price (nine sessions, one, five, one); the first stretch is at a base price, each
\* later stretch at one of the price levels.
\* The first ten sessions are the ten days up to one year before today, the later
\* six are sixty days apart, the last five days before today.
SessionDays ==
    [i \in 1 .. 16 |->
        IF i <= 10 THEN Today - DaysPerYear - (10 - i) ELSE Today - 5 - 60 * (16 - i)]

StretchOf(i) == IF i <= 9 THEN 1 ELSE IF i = 10 THEN 2 ELSE IF i <= 15 THEN 3 ELSE 4

PricePath(levels) ==
    [i \in 1 .. 16 |-> [date |-> SessionDays[i], close |-> levels[StretchOf(i)]]]

BasePrices == {7}

PricePaths == {PricePath(levels) : levels \in {l \in [1 .. 4 -> Prices] : l[1] \in BasePrices}}

\* market_data.fetch_stock_history: the sessions of the path in the lookback window,
\* None when the provider fails or the window holds no session
fetch_stock_history(path, lookback_days) ==
    LET in_window(obs) ==
            /\ Timestamp(obs) >= Now - timedelta(lookback_days)
            /\ Timestamp(obs) <= Now
        hist == SelectSeq(path, in_window)
    IN  IF hist = <<>> THEN None ELSE Some(hist)

\* the frames the provider can return for a lookback of `years` years
Frames ==
    [years \in 0 .. MaxLookbackYears |->
        {fetch_stock_history(path, years * DaysPerYear + BufferDays) :
             path \in PricePaths} \ {None}]

\* what the provider can answer for one ticker of the list: a failure, or a frame;
\* a ticker fetched by an earlier run of this engine has the same price path as
\* then.  A ticker that is not in the list is not asked for.
FetchOutcomes(ticker, tickers) ==
    IF \A i \in DOMAIN tickers : tickers[i] # ticker
    THEN {None}
    ELSE IF HasKey(all_historical_data, ticker)
    THEN {None, Some(DictGet(all_historical_data, ticker))}
    ELSE {None} \cup Frames[lookback_years]

\* Variant of fetch_multiple_stocks that gives up at the first failed ticker
RECURSIVE fetch_multiple_stocks_stops_at_failure(_, _, _)
fetch_multiple_stocks_stops_at_failure(tickers, provider, results) ==
    IF tickers = <<>>
    THEN results
    ELSE IF provider[Head(tickers)] = None
    THEN results
    ELSE fetch_multiple_stocks_stops_at_failure(
             Tail(tickers), provider,
             DictSet(results, Head(tickers), provider[Head(tickers)][1]))

\* market_data.fetch_multiple_stocks: the tickers that were fetched, in list order
RECURSIVE fetch_multiple_stocks(_, _, _)
fetch_multiple_stocks(tickers, provider, results) ==
    IF tickers = <<>>
    THEN results
    ELSE fetch_multiple_stocks(
             Tail(tickers), provider,
             IF provider[Head(tickers)] = None
             THEN results
             ELSE DictSet(results, Head(tickers), provider[Head(tickers)][1]))

-----------------------------------------------------------------------------
(* Specification SpecRun: a caller that builds an engine and calls run(),   *)
(* up to MaxRuns times.                                                      *)

Frequencies == {100, 365}

InitRun ==
    /\ InitState
    /\ indices = <<"SP500", "DAX">>
    /\ min_age_years = 50
    /\ countries = <<"usa">>
    /\ lookback_years \in 0 .. MaxLookbackYears
    /\ screening_frequency_days \in Frequencies
    /\ investment_per_trade \in {0, DefaultInvestment}

RunUnchanged == UNCHANGED config_vars

\* run() up to the start of the date loop: steps 1 and 2, the two early returns
\* and the first two lines of _simulate_screenings.  index_ok and file are what
\* the index pages and the metadata file answer, a and b what the price provider
\* answers for the tickers A and B.
RunStartWith(index_ok, file, a, b) ==
    /\ pc \in {"new", "returned", "returned_empty", "raised"}
    /\ runs < MaxRuns
    /\ runs' = runs + 1
    /\ trades_at_run_start' = Len(trades)
    /\ LET candidates == _get_candidate_tickers(index_ok, file)
           provider == [t \in Tickers |-> IF t = "A" THEN a ELSE b]
           fetched == fetch_multiple_stocks(candidates.value, provider, <<>>)
       IN  IF candidates.raised
           THEN /\ pc' = "raised"
                /\ result' = None
                /\ UNCHANGED <<candidate_tickers, all_historical_data, end_date,
                               current_date>>
           ELSE IF candidates.value = <<>>
           THEN /\ candidate_tickers' = candidates.value
                /\ pc' = "returned_empty"
                /\ result' = Some(_create_empty_result)
                /\ UNCHANGED <<all_historical_data, end_date, current_date>>
           ELSE /\ candidate_tickers' = candidates.value
                /\ all_historical_data' = fetched
                /\ IF fetched = <<>>
                   THEN /\ pc' = "returned_empty"
                        /\ result' = Some(_create_empty_result)
                        /\ UNCHANGED <<end_date, current_date>>
                   ELSE /\ pc' = "screening"
                        /\ result' = None
                        /\ end_date' = Some(Now)
                        /\ current_date' =
                               Some(Now - timedelta(lookback_years * DaysPerYear))
    /\ UNCHANGED <<open_positions, closed_trades, trades>>
    /\ RunUnchanged

RunStart ==
    \E index_ok \in [{"SP500", "DAX"} -> BOOLEAN], file \in MetadataFiles :
        LET tickers == _get_candidate_tickers(index_ok, file).value
        IN  \E a \in FetchOutcomes("A", tickers), b \in FetchOutcomes("B", tickers) :
                RunStartWith(index_ok, file, a, b)

\* Variant of the loop body that opens the new position before the exit scan
ScreeningStep_opens_first ==
    /\ pc = "screening"
    /\ current_date[1] <= end_date[1]
    /\ LET worst_stock == _screen_for_date(current_date[1])
           opened == IF worst_stock # None
                     THEN _open_position(Engine, worst_stock[1], current_date[1])
                     ELSE Engine
           updated == _update_open_positions(opened, current_date[1])
       IN  IF updated.raised
           THEN /\ SetEngine(updated)
                /\ pc' = "raised"
                /\ UNCHANGED current_date
           ELSE /\ SetEngine(updated)
                /\ pc' = pc
                /\ current_date' =
                       Some(current_date[1] + timedelta(screening_frequency_days))
    /\ UNCHANGED <<all_historical_data, candidate_tickers, end_date, result, runs,
                   trades_at_run_start>>
    /\ RunUnchanged

\* one iteration of the while loop of _simulate_screenings
ScreeningStep ==
    /\ pc = "screening"
    /\ current_date[1] <= end_date[1]
    /\ LET updated == _update_open_positions(Engine, current_date[1])
           worst_stock == _screen_for_date(current_date[1])
       IN  IF updated.raised
           THEN /\ SetEngine(updated)
                /\ pc' = "raised"
                /\ UNCHANGED current_date
           ELSE /\ SetEngine(IF worst_stock # None
                             THEN _open_position(updated, worst_stock[1], current_date[1])
                             ELSE updated)
                /\ pc' = pc
                /\ current_date' =
                       Some(current_date[1] + timedelta(screening_frequency_days))
    /\ UNCHANGED <<all_historical_data, candidate_tickers, end_date, result, runs,
                   trades_at_run_start>>
    /\ RunUnchanged

\* the loop is over: step 4 of run(), _close_remaining_positions
RunCloseRemaining ==
    /\ pc = "screening"
    /\ current_date[1] > end_date[1]
    /\ LET closed == _close_remaining_positions(Engine, Now)
       IN  /\ SetEngine(closed)
           /\ pc' = IF closed.raised THEN "raised" ELSE "closed_remaining"
    /\ UNCHANGED <<all_historical_data, candidate_tickers, end_date, current_date,
                   result, runs, trades_at_run_start>>
    /\ RunUnchanged

\* run() returns _generate_results()
RunGenerateResults ==
    /\ pc = "closed_remaining"
    /\ result' = Some(_generate_results(Engine))
    /\ pc' = "returned"
    /\ UNCHANGED <<open_positions, closed_trades, all_historical_data, trades,
                   candidate_tickers, end_date, current_date, runs, trades_at_run_start>>
    /\ RunUnchanged

NextRun ==
    \/ RunStart
    \/ ScreeningStep
    \/ RunCloseRemaining
    \/ RunGenerateResults

SpecRun == InitRun /\ [][NextRun]_vars

-----------------------------------------------------------------------------
(* Specification SpecLoop: the first run() of an engine from the start of    *)
(* its date loop to its return, for the tickers A and B, where the fetch of  *)
(* B failed or B has the prices of A.  run() is one sequential call: a step  *)
(* of it that can be taken is taken.                                         *)

\* the state in which the first run() enters _simulate_screenings
InitLoop ==
    /\ indices = <<"SP500", "DAX">>
    /\ min_age_years = 50
    /\ countries = <<"usa">>
    /\ lookback_years \in 0 .. MaxLookbackYears
    /\ screening_frequency_days \in Frequencies
    /\ investment_per_trade \in {0, DefaultInvestment}
    /\ open_positions = <<>>
    /\ closed_trades = <<>>
    /\ trades = <<>>
    /\ candidate_tickers = <<"A", "B">>
    /\ \E a \in Frames[lookback_years] : \E b \in {None, a} :
           LET provider == [t \in Tickers |-> IF t = "A" THEN a ELSE b]
           IN  /\ all_historical_data = fetch_multiple_stocks(candidate_tickers, provider, <<>>)
               /\ all_historical_data # <<>>
    /\ pc = "screening"
    /\ end_date = Some(Now)
    /\ current_date = Some(Now - timedelta(lookback_years * DaysPerYear))
    /\ result = None
    /\ runs = 1
    /\ trades_at_run_start = 0

NextLoop ==
    \/ ScreeningStep
    \/ RunCloseRemaining
    \/ RunGenerateResults

\* the condition under which the loop body can be taken
LoopGuard == pc = "screening" /\ current_date[1] <= end_date[1]

\* weak fairness of the loop body, WF_vars(ScreeningStep), with its enabling
\* condition written out as LoopGuard
LoopBodyFair == ([]<>~LoopGuard) \/ ([]<><<ScreeningStep>>_vars)

SpecLoop ==
    /\ InitLoop
    /\ [][NextLoop]_vars
    /\ LoopBodyFair
    /\ WF_vars(RunCloseRemaining)
    /\ WF_vars(RunGenerateResults)

-----------------------------------------------------------------------------
(* Specification SpecEval: a caller that holds the price series of one       *)
(* ticker and, for a reference date, either evaluates the observations up to *)
(* that date or screens on that date.                                        *)

MaxEvalLen == 11
MaxOddLen == 7

\* the prices 100 and 90, in cents, and a price a fraction of a cent above 90
EvalHi == 100 * CentUnits
EvalLo == 90 * CentUnits
EvalOdd == EvalLo + 1

\* the series of n daily observations, days 1 .. n, with closes among `prices`
SeriesOver(n, prices) ==
    {[i \in 1 .. n |-> [date |-> i, close |-> c[i]]] : c \in [1 .. n -> prices]}

\* a week with a weekend in it: observations on the days 1, 2, 5 and 6 only
TradingDays == <<1, 2, 5, 6>>
GappedSeries ==
    {[i \in DOMAIN TradingDays |-> [date |-> TradingDays[i], close |-> c[i]]] :
        c \in [DOMAIN TradingDays -> {EvalLo, EvalOdd, EvalHi}]}

EvalSeries ==
    SeriesOver(MaxEvalLen - 1, {EvalLo, EvalHi})
        \cup SeriesOver(MaxEvalLen, {EvalLo, EvalHi})
        \cup SeriesOver(MaxOddLen, {EvalLo, EvalOdd, EvalHi})
        \cup GappedSeries

\* reference dates: a tick past midnight of the days 0 .. MaxEvalLen
EvalDates == {strptime(d) + 1 : d \in 0 .. MaxEvalLen}

\* lookup dates: every instant from midnight of day 0 on, midnights included
PriceDates == 0 .. (strptime(MaxEvalLen) + 1)

InitEval ==
    /\ indices = <<"SP500", "DAX">>
    /\ min_age_years = 50
    /\ countries = <<>>
    /\ lookback_years = 5
    /\ screening_frequency_days = 7
    /\ investment_per_trade = DefaultInvestment
    /\ open_positions = <<>>
    /\ closed_trades = <<>>
    /\ \E hist \in EvalSeries : all_historical_data = <<[key |-> "A", val |-> hist]>>
    /\ trades = <<>>
    /\ pc = "loaded"
    /\ candidate_tickers = <<"A">>
    /\ end_date = None
    /\ current_date = None
    /\ result = None
    /\ runs = 0
    /\ trades_at_run_start = 0

EvalUnchanged ==
    UNCHANGED <<config_vars, open_positions, closed_trades, all_historical_data, trades,
                candidate_tickers, end_date, runs, trades_at_run_start>>

\* calculate_worst_5day_performance on the observations up to a date
CallEvaluate ==
    /\ pc = "loaded"
    /\ \E date \in EvalDates :
           /\ current_date' = Some(date)
           /\ result' = Some(calculate_worst_5day_performance(
                                 up_to_date(all_historical_data[1].val, date)))
    /\ pc' = "evaluated"
    /\ EvalUnchanged

\* _screen_for_date on a date
CallScreenForDate ==
    /\ pc = "loaded"
    /\ \E date \in EvalDates :
           /\ current_date' = Some(date)
           /\ result' = Some(_screen_for_date(date))
    /\ pc' = "screened"
    /\ EvalUnchanged

\* get_price_on_date on a date
CallGetPriceOnDate ==
    /\ pc = "loaded"
    /\ \E date \in PriceDates :
           /\ current_date' = Some(date)
           /\ result' = Some(get_price_on_date(all_historical_data[1].val, date))
    /\ pc' = "priced"
    /\ EvalUnchanged

NextEval ==
    \/ CallEvaluate
    \/ CallScreenForDate
    \/ CallGetPriceOnDate

SpecEval == InitEval /\ [][NextEval]_vars

-----------------------------------------------------------------------------
(* ScreeningEngine (screener.py): one screening of the current market.  The   *)
(* engine has the fields indices, min_age_years and countries of the         *)
(* backtest engine and a list of warnings, empty after construction.         *)

\* performance_filter.calculate_performance_for_multiple: the tickers with a
\* result, in the order of the mapping
calculate_performance_for_multiple(market_data) ==
    LET has_result(e) == calculate_worst_5day_performance(e.val) # None
        kept == SelectSeq(market_data, has_result)
    IN  [i \in DOMAIN kept |->
            [ticker |-> kept[i].key,
             perf |-> calculate_worst_5day_performance(kept[i].val)[1],
             return_pct |-> calculate_worst_5day_performance(kept[i].val)[1].return_pct]]

\* performance_filter.rank_by_worst_performance: sorted by return_pct; the log
\* line reads ranked[0] and raises IndexError for an empty mapping
rank_by_worst_performance(performance_data) ==
    LET ranked == sort_by_return(performance_data)
    IN  IF ranked = <<>> THEN Raised ELSE Returned(ranked)

\* ScreeningEngine._fetch_index_constituents: the warnings of the failed indices
RECURSIVE index_warnings(_, _)
index_warnings(names, index_ok) ==
    IF names = <<>>
    THEN <<>>
    ELSE (IF index_ok[Head(names)] /\ Head(names) \in SupportedIndices
          THEN <<>>
          ELSE <<"failed to fetch index">>)
         \o index_warnings(Tail(names), index_ok)

\* ScreeningEngine._create_output and _create_empty_output
ScreeningOutput(results, with_metadata, total, no_metadata, too_young, warnings) ==
    [metadata |-> [total_candidates |-> total, companies_with_metadata |-> with_metadata,
                   companies_screened |-> Len(results),
                   excluded_no_metadata |-> no_metadata,
                   excluded_too_young |-> too_young],
     results |-> results, warnings |-> warnings]

\* ScreeningEngine._calculate_and_rank: raises, or returns the ScreeningResults
_calculate_and_rank(df, market_data_dict) ==
    LET performance_data == calculate_performance_for_multiple(market_data_dict)
        ranked == rank_by_worst_performance(performance_data)
        company(ticker) == df[CHOOSE i \in DOMAIN df : df[i].ticker = ticker]
    IN  IF ranked.raised
        THEN Raised
        ELSE Returned([i \in DOMAIN ranked.value |->
                          [ticker |-> ranked.value[i].ticker,
                           country |-> company(ranked.value[i].ticker).country,
                           index |-> company(ranked.value[i].ticker).index,
                           founding_year |-> company(ranked.value[i].ticker).founding_year[1],
                           worst_5day_performance |-> ranked.value[i].perf]])

\* the companies of ScreeningEngine.run after steps 1 to 4
screening_filtered(index_ok, file) ==
    LET all_tickers == fetch_indices(indices, index_ok)
        by_ticker == get_companies_by_tickers(load_metadata(file).value, all_tickers)
        by_age == filter_by_age(by_ticker, min_age_years)
    IN  IF countries # <<>> THEN filter_by_country(by_age, countries) ELSE by_age

\* ScreeningEngine.run: raises, or returns a ScreeningOutput
screening_run(index_ok, file, provider) ==
    LET all_tickers == fetch_indices(indices, index_ok)
        warnings1 == index_warnings(indices, index_ok)
        metadata_df == load_metadata(file)
        by_ticker == get_companies_by_tickers(metadata_df.value, all_tickers)
        total_candidates == Len(all_tickers)
        excluded_no_metadata == total_candidates - Len(by_ticker)
        warnings2 ==
            IF excluded_no_metadata > 0
            THEN Append(warnings1, "excluded for missing founding data")
            ELSE warnings1
        by_age == filter_by_age(by_ticker, min_age_years)
        excluded_too_young == Len(by_ticker) - Len(by_age)
        filtered_df == screening_filtered(index_ok, file)
        tickers == [i \in DOMAIN filtered_df |-> filtered_df[i].ticker]
        market_data_dict == fetch_multiple_stocks(tickers, provider, <<>>)
        warnings3 ==
            IF Len(tickers) - Len(market_data_dict) > 0
            THEN Append(warnings2, "tickers failed to fetch")
            ELSE warnings2
        results == _calculate_and_rank(filtered_df, market_data_dict)
    IN  IF metadata_df.raised
        THEN Raised
        ELSE IF Len(filtered_df) = 0
        THEN Returned(ScreeningOutput(<<>>, 0, total_candidates, excluded_no_metadata,
                                      excluded_too_young, warnings2))
        ELSE IF results.raised
        THEN Raised
        ELSE Returned(ScreeningOutput(results.value, Len(metadata_df.value),
                                      total_candidates, excluded_no_metadata,
                                      excluded_too_young, warnings3))

-----------------------------------------------------------------------------
(* Specification SpecScreen: a caller that builds a ScreeningEngine and      *)
(* calls run() once.                                                         *)

\* what the price provider can answer for a ticker: a failure, the few
\* sessions of a short window, or the sessions of a year
ScreenOutcomes == {None} \cup {Some(f) : f \in Frames[0] \cup Frames[MaxLookbackYears]}

InitScreen ==
    /\ InitState
    /\ indices = <<"SP500", "DAX">>
    /\ min_age_years \in {50, 150}
    /\ countries \in {<<>>, <<"usa">>}
    /\ lookback_years = 5
    /\ screening_frequency_days = 7
    /\ investment_per_trade = DefaultInvestment

\* ScreeningEngine.run(): candidate_tickers are the companies that passed the
\* filters, all_historical_data the market data fetched for them, result what
\* run() returned or that it raised
ScreeningRun ==
    /\ pc = "new"
    /\ \E index_ok \in [{"SP500", "DAX"} -> BOOLEAN], file \in MetadataFiles :
       \E a \in ScreenOutcomes, b \in ScreenOutcomes :
           LET provider == [t \in Tickers |-> IF t = "A" THEN a ELSE b]
               filtered_df == screening_filtered(index_ok, file)
               tickers == [i \in DOMAIN filtered_df |-> filtered_df[i].ticker]
               outcome == screening_run(index_ok, file, provider)
           IN  /\ result' = Some(outcome)
               /\ pc' = IF outcome.raised THEN "raised" ELSE "returned"
               /\ IF load_metadata(file).raised
                  THEN UNCHANGED <<candidate_tickers, all_historical_data>>
                  ELSE /\ candidate_tickers' = tickers
                       /\ all_historical_data' =
                              IF tickers = <<>>
                              THEN <<>>
                              ELSE fetch_multiple_stocks(tickers, provider, <<>>)
    /\ runs' = runs + 1
    /\ UNCHANGED <<config_vars, open_positions, closed_trades, trades, end_date,
                   current_date, trades_at_run_start>>

NextScreen == ScreeningRun

SpecScreen == InitScreen /\ [][NextScreen]_vars

-----------------------------------------------------------------------------
(* Properties of the position lifecycle, checked under Spec *)

Range(seq) == {seq[i] : i \in DOMAIN seq}

\* where a Trade object is held
InOpenMap(id) == \E k \in DOMAIN open_positions : open_positions[k].val = id
InLedger(id) == id \in Range(closed_trades)
LedgerCount(id) == Cardinality({k \in DOMAIN closed_trades : closed_trades[k] = id})

\* the Trade objects that were not moved to the ledger
OpenTradeIds == {id \in DOMAIN trades : ~InLedger(id)}

\* C1: at any moment a ticker has at most one OPEN trade: no two distinct Trade
\* objects outside the ledger share a ticker, each of them is the one the open
\* map holds for its ticker, and an open request for a ticker that is already
\* open changes nothing.
C1_OneOpenTradePerTicker ==
    /\ \A i, j \in OpenTradeIds : trades[i].ticker = trades[j].ticker => i = j
    /\ \A i \in OpenTradeIds : InOpenMap(i)
    /\ \A k, l \in DOMAIN open_positions :
           open_positions[k].key = open_positions[l].key => k = l
    /\ \A k \in DOMAIN open_positions :
           trades[open_positions[k].val].ticker = open_positions[k].key
    /\ \A stock_info \in ApiCandidates, entry_date \in ApiTicks :
           HasKey(open_positions, stock_info.ticker)
               => _open_position(Engine, stock_info, entry_date) = Engine

\* a ticker that was closed and is open again, while the other ticker is still
\* not open: the second trade of the ticker lives beside its closed first one
C1_Witness ==
    \E i, j \in DOMAIN trades :
        /\ i < j
        /\ trades[i].ticker = trades[j].ticker
        /\ InLedger(i)
        /\ InOpenMap(j)

\* C2: a trade is closed at most once: no Trade object is in the ledger twice,
\* a close request for a ticker that is not open changes nothing, and a second
\* close right after a close adds no second ledger entry.
C2_ClosedAtMostOnce ==
    /\ \A id \in DOMAIN trades : LedgerCount(id) <= 1
    /\ \A ticker \in Tickers, exit_price \in ApiExitPrices, exit_date \in ApiTicks :
           LET once == _close_position(Engine, ticker, exit_price, exit_date)
               twice == _close_position(once, ticker, exit_price, exit_date)
           IN  /\ ~HasKey(open_positions, ticker) => once = Engine
               /\ twice = once
               /\ Len(twice.closed_trades) =
                      Len(closed_trades) + (IF HasKey(open_positions, ticker) THEN 1 ELSE 0)

\* C3: a candidate whose target price is not strictly above its entry price is
\* never opened: the engine is unchanged by such a request, and every Trade
\* object has target_price > entry_price.
C3_TargetAboveEntry ==
    /\ \A id \in DOMAIN trades : trades[id].target_price > trades[id].entry_price
    /\ \A stock_info \in ApiCandidates, entry_date \in ApiTicks :
           stock_info.target_price <= stock_info.entry_price
               => _open_position(Engine, stock_info, entry_date) = Engine

\* a trade exists, and a ticker is free, so that a request with target = entry
\* for it passes the already-open test and reaches the target guard
C3_Witness ==
    /\ trades # <<>>
    /\ Len(trades) < MaxTrades
    /\ \E stock_info \in ApiCandidates :
           /\ ~HasKey(open_positions, stock_info.ticker)
           /\ stock_info.target_price = stock_info.entry_price

\* C5: every Trade object is either OPEN (held by the open map, not in the
\* ledger, the four exit fields all None) or CLOSED (in the ledger, not in the
\* open map, the four exit fields all set); nothing in between.
C5_OpenOrClosed ==
    \A id \in DOMAIN trades :
        LET t == trades[id]
        IN  \/ /\ InOpenMap(id)
               /\ ~InLedger(id)
               /\ t.exit_date = None /\ t.exit_price = None
               /\ t.holding_days = None /\ t.pnl = None
            \/ /\ InLedger(id)
               /\ ~InOpenMap(id)
               /\ t.exit_date # None /\ t.exit_price # None
               /\ t.holding_days # None /\ t.pnl # None

\* C6: the ledger is append-only: every step keeps the ledger it found as a
\* prefix of the new ledger, and leaves the Trade objects in it as they were.
C6_LedgerAppendOnly ==
    [][/\ Len(closed_trades') >= Len(closed_trades)
       /\ SubSeq(closed_trades', 1, Len(closed_trades)) = closed_trades
       /\ \A k \in DOMAIN closed_trades :
              trades'[closed_trades[k]] = trades[closed_trades[k]]]_vars

\* two ledger entries, the second appended behind the first
C6_Witness ==
    /\ Len(closed_trades) = 2
    /\ closed_trades[1] # closed_trades[2]

\* C7: for a closed trade with shares > 0 the sign of the P&L is the sign of
\* (exit price - entry price): positive, zero or negative together.
C7_PnlSign ==
    \A id \in Range(closed_trades) :
        LET t == trades[id]
        IN  t.shares.n > 0 =>
                /\ (t.pnl[1].n > 0) = (t.exit_price[1] > t.entry_price)
                /\ (t.pnl[1].n = 0) = (t.exit_price[1] = t.entry_price)
                /\ (t.pnl[1].n < 0) = (t.exit_price[1] < t.entry_price)

\* a losing and a break-even closed trade, both with shares > 0
C7_Witness ==
    \E i, j \in Range(closed_trades) :
        /\ trades[i].shares.n > 0 /\ trades[i].pnl[1].n < 0
        /\ trades[j].shares.n > 0 /\ trades[j].pnl[1].n = 0

\* the last price of a ticker at or before `now`, None when there is no series
\* for the ticker or no observation that early
LastKnownPrice(ticker, now) ==
    IF ~HasKey(all_historical_data, ticker)
    THEN None
    ELSE LET hist == DictGet(all_historical_data, ticker)
             prior == {i \in DOMAIN hist : hist[i].date * TicksPerDay <= now}
         IN  IF prior = {} THEN None ELSE Some(hist[Max(prior)].close)

\* C8: the end-of-run close closes every OPEN trade whose ticker has a last
\* known price, at that price and dated `now`; a trade whose ticker has none
\* stays OPEN, untouched, and the aggregator still lists it in trades and
\* counts it in still_open and total_trades.
C8_CloseRemaining ==
    /\ \A now \in ApiTicks :
           LET S == _close_remaining_positions(Engine, now)
               r == _generate_results(S)
           IN  \A k \in DOMAIN open_positions :
                   LET e == open_positions[k]
                       price == LastKnownPrice(e.key, now)
                       t == S.trades[e.val]
                   IN  IF price # None
                       THEN /\ ~HasKey(S.open_positions, e.key)
                            /\ e.val \in Range(S.closed_trades)
                            /\ t.exit_price = price
                            /\ t.exit_date = Some(now \div TicksPerDay)
                       ELSE /\ HasKey(S.open_positions, e.key)
                            /\ DictGet(S.open_positions, e.key) = e.val
                            /\ e.val \notin Range(S.closed_trades)
                            /\ t = trades[e.val]
                            /\ e.val \in Range(r.trades)
                            /\ r.still_open >= 1
    /\ pc = "reported" =>
           LET r == result[1]
           IN  /\ \A k \in DOMAIN open_positions : open_positions[k].val \in Range(r.trades)
               /\ \A id \in Range(closed_trades) : id \in Range(r.trades)
               /\ r.still_open = Len(open_positions)
               /\ r.total_trades = Len(closed_trades) + Len(open_positions)

-----------------------------------------------------------------------------
(* Properties of run(), checked under SpecRun *)

\* the Trade objects created by the current run()
RunTradeIds == {id \in DOMAIN trades : id > trades_at_run_start}

\* C4: a position cannot close and reopen on the same date: no trade of a
\* ticker enters on the date on which an earlier trade of that ticker, made in
\* the same run, exited.
C4_NoSameDateReopen ==
    \A i, j \in RunTradeIds :
        (i < j /\ trades[i].ticker = trades[j].ticker /\ trades[i].exit_date # None)
            => trades[i].exit_date[1] # trades[j].entry_date

\* the result of the early returns of run(), written out
ZeroResult ==
    [trades |-> <<>>, total_pnl |-> [n |-> 0, d |-> 1], total_invested |-> 0,
     total_trades |-> 0, winning_trades |-> 0, losing_trades |-> 0, still_open |-> 0,
     avg_holding_days |-> [n |-> 0, d |-> 1], holding_days_distribution |-> <<>>]

\* C9: when run() finds no candidate ticker, or fetches no price series, it
\* returns the all-zero result with no trades, and does so without entering
\* the date loop: no position is opened or closed and no date is visited.
C9_EmptyUniverse ==
    [][/\ (/\ runs' = runs + 1
           /\ pc' # "raised"
           /\ (candidate_tickers' = <<>> \/ all_historical_data' = <<>>))
              => pc' = "returned_empty"
       /\ pc' = "returned_empty"
              => /\ result' = Some(ZeroResult)
                 /\ UNCHANGED <<open_positions, closed_trades, trades, current_date,
                                end_date>>]_vars

\* a second run() that had candidates but fetched no price series, and
\* returned early on an engine that holds trades of the first run
C9_Witness ==
    /\ pc = "returned_empty"
    /\ runs = 2
    /\ closed_trades # <<>>
    /\ candidate_tickers # <<>>
    /\ all_historical_data = <<>>

\* C10: every run() starts from an empty open map and an empty ledger, so that
\* what it holds and returns are trades of that run only.
C10_FreshStatePerRun ==
    /\ pc \in {"screening", "closed_remaining", "returned"}
           => \A id \in DOMAIN trades : (InOpenMap(id) \/ InLedger(id)) => id \in RunTradeIds
    /\ pc = "returned" => \A id \in Range(result[1].trades) : id \in RunTradeIds

-----------------------------------------------------------------------------
(* Properties of the result aggregator *)

\* the closed trades, in ledger order
ClosedTrades == [k \in DOMAIN closed_trades |-> trades[closed_trades[k]]]

\* the sum of the counts of a histogram
RECURSIVE SumCounts(_, _)
SumCounts(dist, labels) ==
    IF labels = {}
    THEN 0
    ELSE LET label == CHOOSE l \in labels : TRUE
         IN  dist[label] + SumCounts(dist, labels \ {label})

\* the buckets [min_days, max_days) that hold a number of days
BucketsOf(days) == {b \in DOMAIN ranges : InRange(days, ranges[b])}

\* C11: in the result of a run the histogram counts sum to the number of closed
\* trades that have a holding_days value, a value of 0 included, and every
\* such trade falls in exactly one bucket and is counted under its label.
C11_HistogramPartition ==
    pc = "returned" =>
        LET dist == result[1].holding_days_distribution
            with_value == {k \in DOMAIN ClosedTrades : ClosedTrades[k].holding_days # None}
        IN  /\ SumCounts(dist, DOMAIN dist) = Cardinality(with_value)
            /\ \A k \in with_value :
                   Cardinality(BucketsOf(ClosedTrades[k].holding_days[1])) = 1

\* C12: avg_holding_days of the result of a run is the sum of holding_days over
\* all closed trades divided by their number, a trade held 0 days included,
\* and 0 when there is no closed trade.
C12_AverageHoldingDays ==
    pc = "returned" =>
        LET days == [k \in DOMAIN ClosedTrades |-> ClosedTrades[k].holding_days[1]]
        IN  result[1].avg_holding_days =
                IF days = <<>> THEN [n |-> 0, d |-> 1] ELSE Rat(SumInt(days), Len(days))

\* how often a Trade object occurs in a list of references
Occurrences(seq, id) == Cardinality({k \in DOMAIN seq : seq[k] = id})

RECURSIVE PnlFrom(_)
PnlFrom(k) ==
    IF k > Len(closed_trades)
    THEN [n |-> 0, d |-> 1]
    ELSE RatAdd(ClosedTrades[k].pnl[1], PnlFrom(k + 1))

\* C14: in the result, total_pnl is the sum of the P&L of the closed trades
\* only, winning_trades counts the closed trades with pnl > 0, losing_trades
\* those with pnl < 0, and a closed trade with pnl exactly 0 is in neither, so
\* winning_trades + losing_trades <= number of closed trades.
C14_PnlTotals ==
    pc = "reported" =>
        LET r == result[1]
            wins == {k \in DOMAIN ClosedTrades : ClosedTrades[k].pnl[1].n > 0}
            losses == {k \in DOMAIN ClosedTrades : ClosedTrades[k].pnl[1].n < 0}
        IN  /\ r.total_pnl = PnlFrom(1)
            /\ r.winning_trades = Cardinality(wins)
            /\ r.losing_trades = Cardinality(losses)
            /\ r.winning_trades + r.losing_trades <= Len(closed_trades)

\* a result over a break-even and a losing closed trade
C14_Witness ==
    /\ pc = "reported"
    /\ \E k, l \in DOMAIN ClosedTrades :
           /\ ClosedTrades[k].shares.n > 0
           /\ ClosedTrades[k].pnl[1].n = 0
           /\ ClosedTrades[l].pnl[1].n < 0
    /\ result[1].winning_trades + result[1].losing_trades < Len(closed_trades)

-----------------------------------------------------------------------------
(* Properties of the candidate selector, checked under SpecRun *)

\* run() stands at the head of the date loop with a date to screen
AtScreeningDate == pc = "screening" /\ current_date[1] <= end_date[1]

\* the observations of a series on or before a date
Known(hist, date) ==
    LET on_or_before(obs) == obs.date * TicksPerDay <= date
    IN  SelectSeq(hist, on_or_before)

\* the 5-session windows inside the last ten observations known at `date`: the
\* positions i of the window ends, empty with fewer than ten observations
RecentWindows(hist, date) ==
    LET n == Len(Known(hist, date))
    IN  IF n < 10 THEN {} ELSE (n - 4) .. n

\* no ticker has a falling window among its recent ones
NoRecentLoss(date) ==
    \A k \in DOMAIN all_historical_data :
        LET h == Known(all_historical_data[k].val, date)
        IN  \A i \in RecentWindows(all_historical_data[k].val, date) :
                h[i].close >= h[i - 5].close

\* the engine's containers are, after the step, as _update_open_positions left them
OpenPhaseChangedNothing ==
    LET updated == _update_open_positions(Engine, current_date[1])
    IN  /\ open_positions' = updated.open_positions
        /\ closed_trades' = updated.closed_trades
        /\ trades' = updated.trades

\* C15: on a screening date where no ticker has a strictly negative
\* worst-window return, or none has enough data, _screen_for_date returns no
\* selection and the open phase of that date leaves the open map and the
\* ledger as the exit check left them.
C15_NoLossNoSelection ==
    [][(AtScreeningDate /\ NoRecentLoss(current_date[1]))
           => /\ _screen_for_date(current_date[1]) = None
              /\ OpenPhaseChangedNothing]_vars

\* a screening date on which a ticker has ten observations and no falling
\* window, while a position is open
C15_Witness ==
    /\ AtScreeningDate
    /\ NoRecentLoss(current_date[1])
    /\ \E k \in DOMAIN all_historical_data :
           RecentWindows(all_historical_data[k].val, current_date[1]) # {}
    /\ open_positions # <<>>

\* the positions of the price-history mapping whose ticker the selector's loop
\* turns into a candidate
Qualifying(date) ==
    {k \in DOMAIN all_historical_data :
         candidate_for(all_historical_data[k].key, all_historical_data[k].val, date) # None}

CandidateAt(k, date) ==
    candidate_for(all_historical_data[k].key, all_historical_data[k].val, date)[1]

\* C16: when at least one ticker qualifies, _screen_for_date returns the
\* candidate whose return is the minimum over the qualifying tickers, and among
\* those with the minimum return the one that comes first in the iteration
\* order of the price-history mapping.
C16_WorstFirst ==
    AtScreeningDate =>
        LET date == current_date[1]
            q == Qualifying(date)
            lowest == {k \in q : \A l \in q :
                           CandidateAt(k, date).return_pct <= CandidateAt(l, date).return_pct}
        IN  q # {} =>
                /\ _screen_for_date(date) # None
                /\ _screen_for_date(date)[1] = CandidateAt(Min(lowest), date)

\* two tickers qualify with the same return, and so do two with different
\* returns where the later one in the mapping has the lower
C16_Witness ==
    /\ AtScreeningDate
    /\ Len(all_historical_data) = 2
    /\ Qualifying(current_date[1]) = {1, 2}
    /\ CandidateAt(1, current_date[1]).return_pct = CandidateAt(2, current_date[1]).return_pct

\* the later ticker of the mapping has the lower return and is selected
C16_WitnessLater ==
    /\ AtScreeningDate
    /\ Qualifying(current_date[1]) = {1, 2}
    /\ CandidateAt(2, current_date[1]).return_pct < CandidateAt(1, current_date[1]).return_pct

\* C17 as stated: the selector returns no selection when the selected window's
\* start price is not strictly above the current price, so _screen_for_date
\* never returns a candidate with target_price <= entry_price.
C17_SelectorRejects ==
    AtScreeningDate =>
        LET worst_stock == _screen_for_date(current_date[1])
        IN  worst_stock # None => worst_stock[1].target_price > worst_stock[1].entry_price

\* C17: _screen_for_date can return a candidate whose target_price is not above
\* its entry_price; it is _open_position that rejects it, so on such a date the
\* open phase changes nothing, and no Trade ever has target_price <=
\* entry_price.
C17_OpenRejects ==
    [][/\ (/\ AtScreeningDate
           /\ _screen_for_date(current_date[1]) # None
           /\ _screen_for_date(current_date[1])[1].target_price
                  <= _screen_for_date(current_date[1])[1].entry_price)
              => OpenPhaseChangedNothing
       /\ \A id \in DOMAIN trades' : trades'[id].target_price > trades'[id].entry_price]_vars

\* a screening date on which the selection has a target below its entry price
\* and its ticker is not open
C17_Witness ==
    /\ AtScreeningDate
    /\ investment_per_trade # 0
    /\ LET worst_stock == _screen_for_date(current_date[1])
           updated == _update_open_positions(Engine, current_date[1])
       IN  /\ worst_stock # None
           /\ worst_stock[1].target_price < worst_stock[1].entry_price
           /\ ~HasKey(updated.open_positions, worst_stock[1].ticker)

-----------------------------------------------------------------------------
(* Properties of the evaluator, checked under SpecEval *)

\* the series 100, 100, 100, 100, 100, 90, 100, 100, 100, 100, 100 on the days 1 .. 11
ScenarioSeries ==
    [i \in 1 .. 11 |-> [date |-> i, close |-> IF i = 6 THEN EvalLo ELSE EvalHi]]

HoldsScenario == all_historical_data = <<[key |-> "A", val |-> ScenarioSeries]>>

\* C18 as stated: for the 11-point series, restricted to its last 10
\* observations as _screen_for_date does, the worst 5-session return is
\* -10.00% with the window ending at the 90 point (day 6).
C18_ScenarioAsStated ==
    HoldsScenario =>
        LET perf == calculate_worst_5day_performance(tail(ScenarioSeries, RecentDays))
        IN  /\ perf # None
            /\ perf[1].return_pct = -1000
            /\ perf[1].end_date = 6

\* C18: restricted to its last 10 observations the 90 point of the 11-point
\* series is the 5th of 10 and ends no 5-session window: the worst return is
\* 0.00%, of the window from day 2 to day 7, and a screening on day 11 selects
\* nothing.  It is on the whole series, without the restriction, that the worst
\* return is -10.00% with the window from day 1 ending at the 90 point.
C18_Scenario ==
    HoldsScenario =>
        LET recent == calculate_worst_5day_performance(tail(ScenarioSeries, RecentDays))
            whole == calculate_worst_5day_performance(ScenarioSeries)
        IN  /\ recent = Some([return_pct |-> 0, start_date |-> 2, end_date |-> 7,
                              start_price |-> EvalHi, end_price |-> EvalHi])
            /\ whole = Some([return_pct |-> -1000, start_date |-> 1, end_date |-> 6,
                             start_price |-> EvalHi, end_price |-> EvalLo])
            /\ (pc = "screened" /\ current_date = Some(strptime(11) + 1))
                   => result = Some(None)

\* the 11-point series was screened on day 11
C18_Witness ==
    /\ HoldsScenario
    /\ pc = "screened"
    /\ current_date = Some(strptime(11) + 1)
    /\ result = Some(None)

\* the series the evaluator was called with: the observations known at current_date
Evaluated == Known(all_historical_data[1].val, current_date[1])

\* the ends i of the 5-session windows (i-5, i) of a series
WindowEnds(h) == 6 .. Len(h)

\* the return of the window ending at i is below that of the window ending at j
\* (prices are positive, so the two quotients are compared by their cross products)
Worse(h, i, j) == h[i].close * h[j - 5].close < h[j].close * h[i - 5].close

\* no window has a return below that of the window ending at i
IsMinimal(h, i) == \A j \in WindowEnds(h) : ~Worse(h, j, i)

\* the chronologically first of the windows with the minimal return
FirstWorst(h) ==
    CHOOSE i \in WindowEnds(h) :
        IsMinimal(h, i) /\ \A j \in WindowEnds(h) : (j < i) => ~IsMinimal(h, j)

\* q is a whole number of cents and the nearest one to the price p
NearestCent(q, p) == q % CentUnits = 0 /\ 2 * Abs(q - p) <= CentUnits

\* C19 as stated: for a series of at least 6 points the evaluator returns the
\* first window of minimal return and reports that window's dates, its prices
\* and its return (price[i] - price[i-5]) / price[i-5] * 100 as they are.
C19_WindowAsStated ==
    (pc = "evaluated" /\ Len(Evaluated) >= 6) =>
        LET h == Evaluated
            i == FirstWorst(h)
        IN  /\ result[1] # None
            /\ result[1][1].start_date = h[i - 5].date
            /\ result[1][1].end_date = h[i].date
            /\ result[1][1].start_price = h[i - 5].close
            /\ result[1][1].end_price = h[i].close
            /\ result[1][1].return_pct * h[i - 5].close
                   = (h[i].close - h[i - 5].close) * 10000

\* C19: for a series of at least 6 points the evaluator returns the window
\* (i-5, i) whose return is minimal over all i >= 5, the chronologically first
\* one when several share the minimum, and reports that window's start and end
\* dates, its start and end prices rounded to the cent and its return rounded to
\* a hundredth of a percent.
C19_FirstMinimalWindow ==
    (pc = "evaluated" /\ Len(Evaluated) >= 6) =>
        LET h == Evaluated
            i == FirstWorst(h)
        IN  /\ result[1] # None
            /\ result[1][1].start_date = h[i - 5].date
            /\ result[1][1].end_date = h[i].date
            /\ NearestCent(result[1][1].start_price, h[i - 5].close)
            /\ NearestCent(result[1][1].end_price, h[i].close)
            /\ 2 * Abs(result[1][1].return_pct * h[i - 5].close
                           - (h[i].close - h[i - 5].close) * 10000)
                   <= h[i - 5].close

\* two windows share the minimal return, the earlier one was returned, and its
\* end price is not a whole number of cents
C19_Witness ==
    /\ pc = "evaluated"
    /\ Len(Evaluated) >= 6
    /\ \E i, j \in WindowEnds(Evaluated) :
           /\ i < j
           /\ IsMinimal(Evaluated, i)
           /\ IsMinimal(Evaluated, j)
           /\ Evaluated[i].close % CentUnits # 0
           /\ Evaluated[i].close < Evaluated[i - 5].close
           /\ i = FirstWorst(Evaluated)
           /\ result[1] # None
           /\ result[1][1].end_date = Evaluated[i].date
           /\ result[1][1].end_price # Evaluated[i].close

\* C20: a screening of a ticker with fewer than 10 observations on or before
\* the screening date skips the ticker (here the only one, so nothing is
\* selected), and calculate_worst_5day_performance returns None for a series
\* of fewer than 6 observations.
C20_TooFewObservations ==
    /\ (pc = "screened" /\ Len(Evaluated) < 10) => result = Some(None)
    /\ (pc = "evaluated" /\ Len(Evaluated) < 6) => result = Some(None)

\* a ticker with a falling 5-session window among its 6 to 9 observations was
\* screened and skipped
C20_Witness ==
    /\ pc = "screened"
    /\ Len(Evaluated) >= 6
    /\ Len(Evaluated) < 10
    /\ \E i \in WindowEnds(Evaluated) : Evaluated[i].close < Evaluated[i - 5].close
    /\ calculate_worst_5day_performance(Evaluated) # None
    /\ result = Some(None)

-----------------------------------------------------------------------------
(* Properties of the price lookup, checked under SpecEval *)

\* the series get_price_on_date was called with
Looked == all_historical_data[1].val

\* the observations of the looked-up series dated on or before current_date
OnOrBefore == {i \in DOMAIN Looked : Looked[i].date * TicksPerDay <= current_date[1]}

-----------------------------------------------------------------------------
(* Properties of the trade arithmetic, checked under Spec *)

\* an amount of whole dollars, in price units
Dollars(k) == k * 100 * CentUnits

\* the engine right after construction
NewEngine ==
    [open_positions |-> <<>>, closed_trades |-> <<>>, trades |-> <<>>, raised |-> FALSE]

\* the example: 50 invested at an entry price of 25, closed at 30 a day later
ExampleOpened ==
    _open_position(NewEngine,
                   [ticker |-> "A", return_pct |-> -1000, entry_price |-> Dollars(25),
                    target_price |-> Dollars(30), company_name |-> "name"],
                   strptime(1))
ExampleClosed == _close_position(ExampleOpened, "A", Dollars(30), strptime(2) + 1)

\* C22: every trade has shares = investment_per_trade / entry_price; once
\* _close_position has set its exit fields, holding_days is the exit date minus
\* the entry date in whole calendar days and pnl = shares * (exit_price -
\* entry_price).  With 50 invested at 25 the trade has 2 shares and its exit at
\* 30 gives a pnl of 10.
C22_TradeArithmetic ==
    /\ \A id \in DOMAIN trades :
           LET t == trades[id]
           IN  /\ t.shares.n * t.entry_price = investment_per_trade * t.shares.d
               /\ (t.exit_date # None) =>
                      /\ t.holding_days = Some(t.exit_date[1] - t.entry_date)
                      /\ t.pnl # None
                      /\ t.pnl[1].n * t.shares.d
                             = t.shares.n * (t.exit_price[1] - t.entry_price) * t.pnl[1].d
    /\ (investment_per_trade = Dollars(50)) =>
           /\ ExampleOpened.trades[1].shares = RatInt(2)
           /\ ExampleClosed.trades[1].pnl = Some(RatInt(Dollars(10)))
           /\ ExampleClosed.trades[1].holding_days = Some(1)

\* a trade with a whole number of shares was closed at a loss on a later day
\* than its entry day
C22_Witness ==
    /\ investment_per_trade = Dollars(50)
    /\ \E id \in DOMAIN trades :
           /\ InLedger(id)
           /\ trades[id].shares.n > 0
           /\ trades[id].holding_days = Some(1)
           /\ trades[id].exit_date[1] > trades[id].entry_date
           /\ trades[id].pnl[1].n < 0

-----------------------------------------------------------------------------
(* Properties of the exit scan, checked under Spec *)

-----------------------------------------------------------------------------
(* Properties of the date loop, checked under SpecLoop *)

\* the first date of the loop
LoopStart == Now - timedelta(lookback_years * DaysPerYear)

\* the step of the loop
LoopStep == timedelta(screening_frequency_days)

\* in the loop, the date is start + k * step and at most one step past the end
OnTheGrid ==
    pc = "screening" =>
        /\ end_date = Some(Now)
        /\ \E k \in 0 .. (lookback_years * DaysPerYear) \div screening_frequency_days + 1 :
               current_date = Some(LoopStart + k * LoopStep)
        /\ current_date[1] - LoopStep <= end_date[1]

\* the ticker of the trade opened by this step, which closed a trade of that
\* ticker: the exit scan ran before the open
ClosedThenReopened(ticker) ==
    /\ HasKey(open_positions, ticker)
    /\ HasKey(open_positions', ticker)
    /\ DictGet(open_positions', ticker) # DictGet(open_positions, ticker)
    /\ DictGet(open_positions, ticker) \in Range(closed_trades')

\* a step of the loop: taken at a date up to the end, it moves the date on by
\* one step; the loop is left, without an exception, only past the end
LoopStepTaken ==
    /\ (pc = "screening" /\ pc' = "screening") =>
           /\ current_date[1] <= end_date[1]
           /\ current_date' = Some(current_date[1] + LoopStep)
           /\ end_date' = end_date
    /\ (pc = "screening" /\ pc' = "closed_remaining") => current_date[1] > end_date[1]

\* the exit scan of a date comes before its open: a ticker the selection picks
\* whose open trade reaches its target at that date is closed and opened anew
UpdateBeforeOpen ==
    (pc = "screening" /\ pc' = "screening") =>
        LET worst_stock == _screen_for_date(current_date[1])
        IN  \A k \in DOMAIN open_positions :
                LET e == open_positions[k]
                    price == LastKnownPrice(e.key, current_date[1])
                IN  (/\ worst_stock # None
                     /\ worst_stock[1].ticker = e.key
                     /\ worst_stock[1].target_price > worst_stock[1].entry_price
                     /\ price # None
                     /\ price[1] >= trades[e.val].target_price)
                        => ClosedThenReopened(e.key)

\* the last date the loop visited before it ended is `now` itself
EndIsScreened ==
    (pc = "screening" /\ pc' = "closed_remaining") =>
        current_date[1] - LoopStep = end_date[1]

-----------------------------------------------------------------------------
(* Properties of the failure handling of run(), checked under SpecRun *)

\* the ways the index pages can answer: each index fetched or failed
IndexAnswers == [{"SP500", "DAX"} -> BOOLEAN]

\* the tickers of the indices that were fetched
FetchedConstituents(index_ok) ==
    UNION {Range(IndexConstituents(name)) : name \in {n \in DOMAIN index_ok : index_ok[n]}}

\* the ways the price provider can answer for the frames the engine holds:
\* for each ticker a failure or one of these frames
ProviderAnswers ==
    [Tickers -> {None} \cup {Some(all_historical_data[k].val) : k \in DOMAIN all_historical_data}]

\* the fields of BacktestResult
ResultFields ==
    {"trades", "total_pnl", "total_invested", "total_trades", "winning_trades",
     "losing_trades", "still_open", "avg_holding_days", "holding_days_distribution"}

\* a candidate ticker of the current run has no price series: its fetch failed
SomeFetchFailed ==
    \E i \in DOMAIN candidate_tickers : ~HasKey(all_historical_data, candidate_tickers[i])

\* the candidate list is unaffected by failed fetches of other indices
SkipsFailedIndices ==
    \A index_ok \in IndexAnswers, file \in MetadataFiles :
        LET got == _get_candidate_tickers(index_ok, file)
            all == _get_candidate_tickers([n \in DOMAIN index_ok |-> TRUE], file)
            fetched(t) == t \in FetchedConstituents(index_ok)
        IN  /\ got.raised <=> load_metadata(file).raised
            /\ ~got.raised => got.value = SelectSeq(all.value, fetched)

\* the price series are those of the tickers whose fetch succeeded
SkipsFailedTickers ==
    \A provider \in ProviderAnswers :
        LET fetched == fetch_multiple_stocks(candidate_tickers, provider, <<>>)
        IN  /\ Keys(fetched) = {t \in Range(candidate_tickers) : provider[t] # None}
            /\ \A t \in Keys(fetched) : DictGet(fetched, t) = provider[t][1]

\* C25 as stated: a failed index fetch or price fetch does not abort the run,
\* which continues with the remaining tickers, and the result run() returns
\* carries a warning for each such failure.
C25_WarningsAttached ==
    /\ SkipsFailedIndices
    /\ SkipsFailedTickers
    /\ (pc = "returned" /\ SomeFetchFailed) => "warnings" \in DOMAIN result[1]

\* C25: a failed index fetch or price fetch does not abort the run, which
\* continues with the remaining tickers; the failure is not recorded in the
\* result run() returns, which has the fields of BacktestResult and no other.
C25_FailuresSkipped ==
    /\ SkipsFailedIndices
    /\ SkipsFailedTickers
    /\ (pc \in {"screening", "closed_remaining", "returned"}) =>
           /\ all_historical_data # <<>>
           /\ Keys(all_historical_data) \subseteq Range(candidate_tickers)
    /\ (pc \in {"returned", "returned_empty"}) => DOMAIN result[1] = ResultFields

\* run() returned with a trade of this run although the price fetch of another
\* candidate had failed
C25_Witness ==
    /\ pc = "returned"
    /\ SomeFetchFailed
    /\ Len(trades) > trades_at_run_start
    /\ result[1].total_trades > 0

\* the metadata file is missing or lacks a required column
ConfigurationError(file) == ~file.exists \/ ~file.columns

\* a call of run() that ended with an exception before its date loop
RaisedAtStart == runs' = runs + 1 /\ pc' = "raised"

\* C26: a missing metadata file or a missing required column makes
\* load_metadata raise; the exception leaves _get_candidate_tickers and run(),
\* whatever the index pages answer, and that run() returns no result, opens no
\* trade and fetches no prices.
C26_ConfigurationErrorIsFatal ==
    [][/\ \A index_ok \in IndexAnswers, file \in MetadataFiles :
              /\ ConfigurationError(file) <=> load_metadata(file).raised
              /\ ConfigurationError(file) <=> _get_candidate_tickers(index_ok, file).raised
       /\ RaisedAtStart =>
              /\ result' = None
              /\ UNCHANGED <<open_positions, closed_trades, trades, all_historical_data,
                             candidate_tickers, current_date, end_date>>]_vars

\* the first run() of an engine ended with the exception of load_metadata
C26_Witness ==
    /\ pc = "raised"
    /\ runs = 1
    /\ investment_per_trade # 0
    /\ result = None
    /\ trades = <<>>
    /\ all_historical_data = <<>>

-----------------------------------------------------------------------------
(* Properties of repeated opens, checked under Spec *)

\* C27: _open_position for a ticker that has an OPEN trade changes nothing:
\* that trade, every other trade, the open map and the ledger stay as they
\* are, whatever the entry price, target price and date of the new candidate.
C27_OpenOnOpenIsNoOp ==
    \A stock_info \in ApiCandidates, entry_date \in ApiTicks :
        HasKey(open_positions, stock_info.ticker) =>
            LET S == _open_position(Engine, stock_info, entry_date)
            IN  /\ S.trades = trades
                /\ S.open_positions = open_positions
                /\ S.closed_trades = closed_trades

\* a ticker is open, another open of it with another target and another date
\* can be called, and it still holds its one trade as opened
C27_Witness ==
    /\ pc = "api"
    /\ Len(trades) < MaxTrades
    /\ \E k \in DOMAIN open_positions :
           LET t == trades[open_positions[k].val]
           IN  /\ t.exit_date = None
               /\ \E stock_info \in ApiCandidates, entry_date \in ApiTicks :
                      /\ stock_info.ticker = t.ticker
                      /\ stock_info.target_price > stock_info.entry_price
                      /\ stock_info.target_price # t.target_price
                      /\ strftime(entry_date) # t.entry_date

-----------------------------------------------------------------------------
(* Properties of ScreeningEngine.run, checked under SpecScreen *)

\* companies passed the filters, and no price series was fetched or none of
\* the fetched ones gives a performance
NothingToRank ==
    /\ candidate_tickers # <<>>
    /\ calculate_performance_for_multiple(all_historical_data) = <<>>

\* C28: when companies pass the filters but no price data is fetched for any
\* of them, or no performance can be calculated, ScreeningEngine.run() does not
\* raise: it returns a ScreeningOutput with an empty results list.
C28_EmptyOutcomeIsAResult ==
    (pc \in {"returned", "raised"} /\ NothingToRank) =>
        /\ ~result[1].raised
        /\ result[1].value.results = <<>>

-----------------------------------------------------------------------------
(* Properties of the exits of a run, checked under SpecRun *)

\* the trades that this step moves into the ledger
NewlyClosed == {id \in Range(closed_trades') : id \notin Range(closed_trades)}

\* the step is an iteration of the date loop, and the step is the forced close
LoopIteration == pc = "screening" /\ pc' = "screening"
ForcedClose == pc = "screening" /\ pc' \in {"closed_remaining", "raised"} /\ current_date[1] > end_date[1]

-----------------------------------------------------------------------------
(* Properties of the entries of a run, checked under SpecRun *)

\* the worst candidate of a date: the first of the qualifying tickers with the
\* lowest return, None when no ticker qualifies
WorstAt(date) ==
    LET q == Qualifying(date)
        lowest == {k \in q : \A l \in q :
                       CandidateAt(k, date).return_pct <= CandidateAt(l, date).return_pct}
    IN  IF q = {} THEN None ELSE Some(CandidateAt(Min(lowest), date))

\* the ticker holds, after the step, the trade it held before it
StillOpen(ticker) ==
    /\ HasKey(open_positions, ticker)
    /\ HasKey(open_positions', ticker)
    /\ DictGet(open_positions', ticker) = DictGet(open_positions, ticker)

\* C30: an iteration of the date loop creates at most one trade, and only for
\* the worst candidate of its date: when no ticker qualifies, when the worst
\* candidate's ticker still has its OPEN trade or when its target is not above
\* its entry price, no trade is created on that date, whatever other tickers
\* qualify; otherwise exactly one is, for that candidate.
C30_OnlyTheWorstIsOpened ==
    [][LoopIteration =>
           LET worst == WorstAt(current_date[1])
           IN  IF \/ worst = None
                  \/ StillOpen(worst[1].ticker)
                  \/ worst[1].target_price <= worst[1].entry_price
               THEN Len(trades') = Len(trades)
               ELSE /\ Len(trades') = Len(trades) + 1
                    /\ \A id \in DOMAIN trades : trades'[id].ticker = trades[id].ticker
                    /\ trades'[Len(trades')].ticker = worst[1].ticker
                    /\ trades'[Len(trades')].entry_price = worst[1].entry_price
                    /\ trades'[Len(trades')].target_price = worst[1].target_price
                    /\ trades'[Len(trades')].entry_date = strftime(current_date[1])
                    /\ DictGet(open_positions', worst[1].ticker) = Len(trades')]_vars

\* a screening date on which the worst candidate's ticker holds an OPEN trade
\* below its target while another ticker, without a position, qualifies with a
\* target above its entry price
C30_Witness ==
    /\ AtScreeningDate
    /\ investment_per_trade # 0
    /\ LET date == current_date[1]
           worst == WorstAt(date)
       IN  /\ worst # None
           /\ HasKey(open_positions, worst[1].ticker)
           /\ worst[1].entry_price
                  < trades[DictGet(open_positions, worst[1].ticker)].target_price
           /\ \E k \in Qualifying(date) :
                  /\ CandidateAt(k, date).ticker # worst[1].ticker
                  /\ ~HasKey(open_positions, CandidateAt(k, date).ticker)
                  /\ CandidateAt(k, date).target_price > CandidateAt(k, date).entry_price

====
